---- MODULE Spec2Model ----
(***************************************************************************)
(* git-flow-action: the release promotion pipeline (Release.handle), the   *)
(* VersionManagerService text transforms it uses, the changelog text it    *)
(* writes, the GitHubService gateway it drives, and Feature.test.          *)
(*                                                                         *)
(* Strings are sequences of tokens.  A token is one character (".", "1",   *)
(* "x", "v") or the word "release/", which is the literal the source       *)
(* hard-codes and is kept whole.                                           *)
(***************************************************************************)
EXTENDS Integers, Sequences, FiniteSets, TLC

VARIABLES
    prHead,          \* head ref of the triggering pull request (platform)
    prefixes,        \* action inputs read by getPrefixes(): release, tag
    pc,              \* position of the run inside Release.handle
    branches,        \* BranchSet resolved by getBranches()
    version,         \* const version of handle()
    projectName,     \* let projectName of handle()
    sha,             \* const sha of handle(): result of merge() (0: none)
    prBranch,        \* argument `branch` of the running getPRInfo call
    fmt,             \* index of the running getPRInfo loop in branchFormats
    cmds,            \* install, build and packaging commands run, in order
    locks,           \* lock files found in the working directory
    mtarFilePath,    \* let mtarFilePath of buildProject()
    releaseFilePath, \* this.releaseFilePath
    files,           \* release artifacts present on the local disk
    repo,            \* state of the hosted repository
    calls,           \* mutating gateway / hosting-API calls issued, in order
    prLog,           \* pulls.list queries issued, in order
    trace,           \* steps of handle() that have begun, in order
    faults,          \* steps in which an exception was raised
    result,          \* commit id handle() resolved with (0: none)
    projectKind,     \* const isMtaProject of buildProject(), once evaluated
    changelog,       \* text of the local CHANGELOG.md, as a sequence of lines
    input,           \* arguments of the text transform or test under study
    output           \* values it returned, in order

vars == <<prHead, prefixes, pc, branches, version, projectName, sha,
          prBranch, fmt, cmds, locks, mtarFilePath, releaseFilePath, files,
          repo, calls, prLog, trace, faults, result, projectKind, changelog,
          input, output>>

-----------------------------------------------------------------------------
(* Bounds of the model *)

MaxPrefixLen == 1
MaxVerLen == 5
MaxEntries == 3
MaxContentLen == 4
MaxHeadLen == 2
MaxWrites == 3

-----------------------------------------------------------------------------
(* Strings *)

Char == {"release/", "x", ".", "1"}
Digit == {"1"}
VerChar == {".", "1"}
SingleChar == {"x", ".", "1", "v"}

Strings(S, n) == UNION {[1..k -> S] : k \in 0..n}

DropFirst(s, n) == SubSeq(s, n + 1, Len(s))

StartsWith(s, p) == Len(p) <= Len(s) /\ SubSeq(s, 1, Len(p)) = p

\* s.includes(p)
Includes(s, p) == \E i \in 0..Len(s) : StartsWith(DropFirst(s, i), p)

\* s.split(sep).join(''): every occurrence of sep is removed, left to right
RECURSIVE SplitJoin(_, _)
SplitJoin(s, sep) ==
    IF sep = <<>> \/ Len(s) < Len(sep) THEN s
    ELSE IF StartsWith(s, sep) THEN SplitJoin(DropFirst(s, Len(sep)), sep)
    ELSE <<Head(s)>> \o SplitJoin(Tail(s), sep)

-----------------------------------------------------------------------------
(* VersionManagerService *)

Throw == <<"Error">>

\* One token of releasePrefix, read as a piece of the regular expression
\* source: "." is the wildcard for one character, every other token of Char
\* stands for itself ('/' is escaped to '\/', which still matches '/').
AtomMatches(atom, c) == IF atom = "." THEN c \in SingleChar ELSE c = atom

\* [0-9]+\.[0-9]+\.[0-9]+ matched against the whole of s
MatchesVersionPattern(s) ==
    \E i, j \in 1..Len(s) :
        /\ 1 < i /\ i + 1 < j /\ j < Len(s)
        /\ s[i] = "." /\ s[j] = "."
        /\ \A k \in (1..Len(s)) \ {i, j} : s[k] \in Digit

extractVersionFromBranch(branchName, releasePrefix) ==
    LET n == Len(releasePrefix)
        rest == DropFirst(branchName, n)
    IN  IF /\ n <= Len(branchName)
           /\ \A k \in 1..n : AtomMatches(releasePrefix[k], branchName[k])
           /\ MatchesVersionPattern(rest)
        THEN rest
        ELSE Throw

\* The content of mta.yaml is a sequence of tokens: the key "version:", a
\* blank, a line break, a value and a word of another line
YamlToken == {"version:", " ", "\n", "0.0.1", "name"}

\* the characters \s matches
Whitespace == {" ", "\n"}

\* \s*: the text after the longest run of whitespace, line breaks included
RECURSIVE SkipSpace(_)
SkipSpace(s) ==
    IF s # <<>> /\ s[1] \in Whitespace THEN SkipSpace(Tail(s)) ELSE s

\* .*: the text from the end of the current line on
RECURSIVE SkipLine(_)
SkipLine(s) == IF s # <<>> /\ s[1] # "\n" THEN SkipLine(Tail(s)) ELSE s

\* mutant: only the key is matched
versionRegexKeyOnly == <<"^version:">>

\* const versionRegex = /^version:\s*.*/gm, atom by atom
versionRegex == <<"^version:", "\\s*", ".*">>

\* the text left after atoms have matched at the head of s
RECURSIVE AfterAtoms(_, _)
AfterAtoms(s, atoms) ==
    IF atoms = <<>> THEN s
    ELSE AfterAtoms(IF atoms[1] = "\\s*" THEN SkipSpace(s) ELSE SkipLine(s),
                    Tail(atoms))

\* content.replace(regex, replacement) with the flags g and m: every match
\* that begins at the start of a line (bol) is replaced, left to right
RECURSIVE Replace(_, _, _, _)
Replace(s, regex, replacement, bol) ==
    IF s = <<>> THEN <<>>
    ELSE IF bol /\ s[1] = "version:"
    THEN replacement
             \o Replace(AfterAtoms(Tail(s), Tail(regex)), regex, replacement,
                        FALSE)
    ELSE <<s[1]>> \o Replace(Tail(s), regex, replacement, s[1] = "\n")

updateMtaYamlVersion(content, ver) ==
    Replace(content, versionRegex, <<"version:", " ">> \o ver, TRUE)

-----------------------------------------------------------------------------
(* Inputs *)

Prefixes == Strings(Char, MaxPrefixLen)
TagPrefixes == {<<>>, <<"v">>}
MinVersion == <<"1", ".", "1", ".", "1">>

\* branch names of a release run: any head, then the literal 1.1.1, then
\* optional trailing text
BranchNames == {h \o MinVersion \o e : h \in Prefixes, e \in {<<>>, <<"x">>}}

\* branch names for the text transforms: any head, then any text of VerChar,
\* then optional trailing text
TextNames ==
    {h \o t \o e : h \in Prefixes, t \in Strings(VerChar, MaxVerLen),
                   e \in {<<>>, <<"x">>}}

None == <<"none">>
Main == <<"main">>
Development == <<"development">>

-----------------------------------------------------------------------------
(* Texts of several lines *)

\* A text is the sequence of its lines, text.split('\n'); a line is a string.
\* The empty text is one empty line.
EmptyText == << <<>> >>

Line(l) == <<l>>

\* '\n' repeated n times
Newlines(n) == [i \in 1..(n + 1) |-> <<>>]

\* x + y: the last line of x continues with the first line of y
Cat(x, y) == SubSeq(x, 1, Len(x) - 1) \o <<x[Len(x)] \o y[1]>> \o Tail(y)

\* a template literal: its pieces, concatenated
RECURSIVE CatAll(_)
CatAll(ts) == IF ts = <<>> THEN EmptyText ELSE Cat(ts[1], CatAll(Tail(ts)))

\* lines.slice(a, b), a and b counted from 0
Slice(lines, a, b) ==
    SubSeq(lines, a + 1, IF b < Len(lines) THEN b ELSE Len(lines))

\* lines.join('\n')
Join(lines) == IF lines = <<>> THEN EmptyText ELSE lines

-----------------------------------------------------------------------------
(* createOrUpdateChangelog: the text written to CHANGELOG.md *)

TitleLine == <<"# Changelog">>
DescriptionLine ==
    <<"All notable changes to this project will be documented in this file.">>

\* tokens that begin with the character '#'
HashTokens == {"# Changelog", "# V", "#"}

\* line.trim() === ''
IsBlank(line) == \A i \in 1..Len(line) : line[i] = " "

\* line.startsWith('#')
StartsWithHash(line) == line # <<>> /\ line[1] \in HashTokens

\* existingContent.includes('# Changelog')
IncludesTitle(text) ==
    \E i \in 1..Len(text) : \E j \in 1..Len(text[i]) : text[i][j] = TitleLine[1]

\* const newEntry: heading, lead-in, body or placeholder, link or nothing,
\* rule, each followed by an empty line
newEntry(ver, prInfo) ==
    CatAll(<< Line(<<"# V">> \o ver), Newlines(2),
              Line(<<"This release includes:">>), Newlines(2),
              IF prInfo.body # EmptyText THEN prInfo.body
              ELSE Line(<<"Release updates and improvements">>),
              Newlines(2),
              IF prInfo.url # <<>>
              THEN Line(<<"[See PR](">> \o prInfo.url \o <<")">>)
              ELSE EmptyText,
              Newlines(2),
              Line(<<"---">>), Newlines(2) >>)

\* lines.findIndex((line, index) => index > 0 && line.trim() !== '' &&
\* !line.startsWith('#')), counted from 0; -1 when no line qualifies
headerEndIndex(lines) ==
    LET hits == {i \in 2..Len(lines) :
                    ~IsBlank(lines[i]) /\ ~StartsWithHash(lines[i])}
    IN  IF hits = {} THEN 0 - 1
        ELSE (CHOOSE i \in hits : \A j \in hits : i <= j) - 1

\* let newContent: the entry spliced into a text that has the title, or a
\* new document made of title, description, entry and the old text
newContent(existingContent, entry) ==
    IF IncludesTitle(existingContent)
    THEN LET lines == existingContent
             cut == IF headerEndIndex(lines) > 0 THEN headerEndIndex(lines)
                    ELSE 4
             header == Join(Slice(lines, 0, cut))
             existingEntries == Join(Slice(lines, cut, Len(lines)))
         IN  CatAll(<<header, Newlines(2), entry, existingEntries>>)
    ELSE CatAll(<<Line(TitleLine), Newlines(2), Line(DescriptionLine),
                  Newlines(2), entry, existingContent>>)

\* what getPRInfo returns for a pull request it found: a body that is never
\* blank (a description is made up for a blank one) and pr.html_url
FoundPrInfo == [body |-> Line(<<"body">>), url |-> <<"url">>]

-----------------------------------------------------------------------------
(* try / catch blocks of Release: what each catch does with the exception *)

\* mutants: a catch that does the opposite of what the source does
updatePackageJsonCatchSwallows == "swallow"
changelogCatchRethrows == "rethrow"
buildProjectCatchSwallows == "swallow"
createGitHubReleaseCatchSwallows == "swallow"
mtarCatchSwallows == "swallow"

updatePackageJsonCatch == "rethrow"
updateVersionFilesCatch == "rethrow"
changelogCommitCatch == "swallow"
changelogCatch == "swallow"
updateMtaYamlCatch == "swallow"
mtarCatch == "rethrow"
buildProjectCatch == "rethrow"
getPRInfoCatch == "swallow"
createGitHubReleaseCatch == "rethrow"

\* mutant: the build is awaited before the merges
HandleOrderBuildBeforeMerge ==
    <<"updateVersionFiles", "changelog", "install", "mergeDev", "createTag",
      "release", "delete", "done">>

\* mutant: the build is awaited before the tag is created
HandleOrderBuildBeforeTag ==
    <<"updateVersionFiles", "changelog", "mergeDev", "install", "createTag",
      "release", "delete", "done">>

\* The awaited calls of handle() after the project name is known, in statement
\* order, each named by the position at which it begins
HandleOrder ==
    <<"updateVersionFiles", "changelog", "mergeDev", "createTag", "install",
      "release", "delete", "done">>

\* the statement of handle() that follows the call beginning at p
After(p) ==
    LET i == CHOOSE k \in 1..(Len(HandleOrder) - 1) : HandleOrder[k] = p
    IN  HandleOrder[i + 1]

\* mutant: mta.yaml is patched before the archive is looked for
ArchiveOrderPatchFirst == <<"mtaGetContent", "findArchive", "package">>

\* The statements of buildProject() for a project with mta.yaml, after the
\* build: the archive is found and renamed, updateMtaYaml is awaited, and
\* the packaging test `if (!mtarFilePath)` follows the try block
ArchiveOrder == <<"findArchive", "mtaGetContent", "package">>

ArchiveAfter(p) ==
    LET i == CHOOSE k \in 1..(Len(ArchiveOrder) - 1) : ArchiveOrder[k] = p
    IN  ArchiveOrder[i + 1]

\* Where an exception lands: the first enclosing catch that swallows it
\* resumes the run at its continuation; if every catch rethrows, handle()
\* rejects.  h lists the enclosing catches, innermost first.
RECURSIVE Land(_)
Land(h) ==
    IF h = <<>> THEN "failed"
    ELSE IF h[1][1] = "swallow" THEN h[1][2]
    ELSE Land(Tail(h))

PkgHandlers ==
    << <<updatePackageJsonCatch, After("updateVersionFiles")>>,
       <<updateVersionFilesCatch, After("updateVersionFiles")>> >>
ChangelogHandlers == << <<changelogCatch, After("changelog")>> >>
BuildHandlers == << <<buildProjectCatch, After("install")>> >>
MtarHandlers == << <<mtarCatch, "package">> >> \o BuildHandlers
MtaYamlHandlers ==
    << <<updateMtaYamlCatch, ArchiveAfter("mtaGetContent")>> >> \o MtarHandlers
ReleaseHandlers == << <<createGitHubReleaseCatch, After("release")>> >>

Raise(step, handlers) ==
    /\ pc' = Land(handlers)
    /\ faults' = faults \cup {step}

Goto(p) ==
    /\ pc' = p
    /\ UNCHANGED faults

\* mutant: the release branch is cleaned up when a call of handle() throws
RejectThenCleanUp(step) == Raise(step, << <<"swallow", "delete">> >>)

\* handle() rejects: no catch encloses the call
Reject(step) == Raise(step, <<>>)

Visit(step) ==
    trace' = IF trace # <<>> /\ trace[Len(trace)] = step
             THEN trace ELSE Append(trace, step)

Call(op, a, b, s) == [op |-> op, a |-> a, b |-> b, sha |-> s]

-----------------------------------------------------------------------------
(* Initial state: the action has been triggered, handle() has not run yet *)

NewRepo ==
    [head |-> 0, merges |-> {}, tags |-> {}, patched |-> {},
     releases |-> {}, assets |-> {}, deleted |-> {}]

Idle ==
    /\ branches = [current |-> None, target |-> None, main |-> None,
                   development |-> None]
    /\ version = None
    /\ projectName = None
    /\ sha = 0
    /\ prBranch = None
    /\ fmt = 0
    /\ cmds = <<>>
    /\ locks = None
    /\ mtarFilePath = None
    /\ releaseFilePath = None
    /\ files = {}
    /\ repo = NewRepo
    /\ calls = <<>>
    /\ prLog = <<>>
    /\ trace = <<>>
    /\ faults = {}
    /\ result = 0
    /\ projectKind = "unclassified"
    /\ output = <<>>

Init ==
    /\ prHead \in BranchNames
    /\ prefixes \in [release : Prefixes, tag : TagPrefixes]
    /\ pc = "getBranches"
    /\ changelog = EmptyText
    /\ input = None
    /\ Idle

-----------------------------------------------------------------------------
(* Release.handle, steps 1-3: branches, version, project name, manifest *)

\* const branches = await this.github.getBranches()
GetBranches ==
    /\ pc = "getBranches"
    /\ \E ok \in BOOLEAN :
        IF ok
        THEN /\ branches' = [current |-> prHead, target |-> Main,
                             main |-> Main, development |-> Development]
             /\ Goto("extractVersion")
        ELSE /\ Reject("getBranches")
             /\ UNCHANGED branches
    /\ UNCHANGED <<input, output, projectKind, changelog,
                   prHead, prefixes, version, projectName, sha, prBranch, fmt,
                   cmds, locks, mtarFilePath, releaseFilePath, files, repo, calls,
                   prLog, trace, result>>

\* const version = this.versionManager.extractVersionFromBranch(...)
ExtractVersion ==
    /\ pc = "extractVersion"
    /\ Visit("extractVersion")
    /\ LET v == extractVersionFromBranch(branches.current, prefixes.release)
       IN  IF v = Throw
           THEN /\ Reject("extractVersion")
                /\ UNCHANGED version
           ELSE /\ version' = v
                /\ Goto("projectName")
    /\ UNCHANGED <<input, output, projectKind, changelog,
                   prHead, prefixes, branches, projectName, sha, prBranch, fmt,
                   cmds, locks, mtarFilePath, releaseFilePath, files, repo, calls,
                   prLog, result>>

\* the local package.json: absent, without a name, with a name, or not JSON
ResolveProjectName ==
    /\ pc = "projectName"
    /\ Visit("projectName")
    /\ \E manifest \in {"absent", "unnamed", "named", "invalid"} :
        IF manifest = "invalid"
        THEN /\ Reject("projectName")
             /\ UNCHANGED projectName
        ELSE /\ projectName' = IF manifest = "named" THEN <<"proj">>
                               ELSE <<"unknown-project">>
             /\ Goto(HandleOrder[1])
    /\ UNCHANGED <<input, output, projectKind, changelog,
                   prHead, prefixes, branches, version, sha, prBranch, fmt,
                   cmds, locks, mtarFilePath, releaseFilePath, files, repo, calls,
                   prLog, result>>

\* updateVersionFiles: the version is extracted a second time
UpdateVersionFiles ==
    /\ pc = "updateVersionFiles"
    /\ Visit("manifest")
    /\ IF extractVersionFromBranch(branches.current, prefixes.release) = Throw
       THEN Raise("manifest", <<PkgHandlers[2]>>)
       ELSE Goto("pkgGetContent")
    /\ UNCHANGED <<input, output, projectKind, changelog,
                   prHead, prefixes, branches, version, projectName, sha,
                   prBranch, fmt, cmds, locks, mtarFilePath, releaseFilePath, files,
                   repo, calls, prLog, result>>

\* updatePackageJson: getFileContent, then updatePackageJsonVersion, which
\* throws when the content is not JSON
PkgGetFileContent ==
    /\ pc = "pkgGetContent"
    /\ \E content \in {"error", "json", "notjson"} :
        IF content = "json"
        THEN Goto("pkgGetSha")
        ELSE Raise("manifest", PkgHandlers)
    /\ UNCHANGED <<input, output, projectKind, changelog,
                   prHead, prefixes, branches, version, projectName, sha,
                   prBranch, fmt, cmds, locks, mtarFilePath, releaseFilePath, files,
                   repo, calls, prLog, trace, result>>

\* updatePackageJson: getFileSha
PkgGetFileSha ==
    /\ pc = "pkgGetSha"
    /\ \E ok \in BOOLEAN :
        IF ok THEN Goto("pkgUpdateFile") ELSE Raise("manifest", PkgHandlers)
    /\ UNCHANGED <<input, output, projectKind, changelog,
                   prHead, prefixes, branches, version, projectName, sha,
                   prBranch, fmt, cmds, locks, mtarFilePath, releaseFilePath, files,
                   repo, calls, prLog, trace, result>>

\* GitHubService.updateFile: commits the new content of path on the branch
UpdateFileOnRepo(path, branch) ==
    /\ calls' = Append(calls, Call("updateFile", path, branch, 0))
    /\ repo' = [repo EXCEPT !.head = @ + 1,
                            !.patched = @ \cup {path}]

\* updatePackageJson: updateFile
PkgUpdateFile ==
    /\ pc = "pkgUpdateFile"
    /\ \E ok \in BOOLEAN :
        IF ok
        THEN /\ UpdateFileOnRepo(<<"package.json">>, branches.current)
             /\ Goto(After("updateVersionFiles"))
        ELSE /\ Raise("manifest", PkgHandlers)
             /\ UNCHANGED <<repo, calls>>
    /\ UNCHANGED <<input, output, projectKind, changelog,
                   prHead, prefixes, branches, version, projectName, sha,
                   prBranch, fmt, cmds, locks, mtarFilePath, releaseFilePath, files,
                   prLog, trace, result>>

-----------------------------------------------------------------------------
(* getPRInfo, called by createOrUpdateChangelog and by createGitHubRelease *)

ReleaseLiteral == <<"release/">>

\* branch.replace(/^release\//, '')
StripReleaseLiteral(branch) ==
    IF StartsWith(branch, ReleaseLiteral)
    THEN DropFirst(branch, Len(ReleaseLiteral)) ELSE branch

branchFormats(branch) ==
    <<branch, StripReleaseLiteral(branch), <<"owner:">> \o branch>>

InChangelog == pc \in {"changelog", "clList", "clGet", "clWrite"}

PrStep == IF InChangelog THEN "changelog" ELSE "prResolution"
PrHandlers == IF InChangelog THEN ChangelogHandlers ELSE ReleaseHandlers
PrListPc == IF InChangelog THEN "clList" ELSE "relList"
PrGetPc == IF InChangelog THEN "clGet" ELSE "relGet"
PrFoundPc == IF InChangelog THEN "clWrite" ELSE "createRelease"

\* the loop moves to the next format, or ends in
\* throw new Error(`No Pull Request found ...`)
NextFormat ==
    IF fmt < Len(branchFormats(prBranch))
    THEN /\ fmt' = fmt + 1
         /\ Goto(PrListPc)
    ELSE /\ Raise(PrStep, PrHandlers)
         /\ UNCHANGED fmt

\* mutant: a query that threw is issued again
LoopCatchRetries == Goto(PrListPc) /\ UNCHANGED fmt

\* an exception inside the loop body
LoopCatch ==
    IF getPRInfoCatch = "swallow"
    THEN NextFormat
    ELSE /\ Raise(PrStep, PrHandlers)
         /\ UNCHANGED fmt

\* instance.pulls.list({head: branchFormat, state: 'all'})
PullsList ==
    /\ pc \in {"clList", "relList"}
    /\ prLog' = Append(prLog, [by |-> PrStep, head |-> branchFormats(prBranch)[fmt]])
    /\ \E outcome \in {"error", "empty", "hit"} :
        CASE outcome = "error" -> LoopCatch
          [] outcome = "empty" -> NextFormat
          [] outcome = "hit" -> Goto(PrGetPc) /\ UNCHANGED fmt
    /\ UNCHANGED <<input, output, projectKind, changelog,
                   prHead, prefixes, branches, version, projectName, sha,
                   prBranch, cmds, locks, mtarFilePath, releaseFilePath, files, repo,
                   calls, trace, result>>

\* instance.pulls.get({pull_number: pr.number}), then return {body, url}
PullsGet ==
    /\ pc \in {"clGet", "relGet"}
    /\ \E ok \in BOOLEAN :
        IF ok THEN Goto(PrFoundPc) /\ UNCHANGED fmt ELSE LoopCatch
    /\ UNCHANGED <<input, output, projectKind, changelog,
                   prHead, prefixes, branches, version, projectName, sha,
                   prBranch, cmds, locks, mtarFilePath, releaseFilePath, files, repo,
                   calls, prLog, trace, result>>

-----------------------------------------------------------------------------
(* Release.handle, step 4: changelog *)

\* createOrUpdateChangelog(version, branches.current) calls getPRInfo(branch)
ChangelogStart ==
    /\ pc = "changelog"
    /\ Visit("changelog")
    /\ prBranch' = branches.current
    /\ fmt' = 1
    /\ Goto("clList")
    /\ UNCHANGED <<input, output, projectKind, changelog,
                   prHead, prefixes, branches, version, projectName, sha,
                   cmds, locks, mtarFilePath, releaseFilePath, files, repo, calls,
                   prLog, result>>

\* the entry is built, CHANGELOG.md is read, spliced and written, and the
\* change is committed when .git exists
ChangelogWrite ==
    /\ pc = "clWrite"
    /\ \E outcome \in {"written", "ioError", "committed", "commitError"} :
        /\ CASE outcome = "ioError" -> Raise("changelog", ChangelogHandlers)
             [] outcome = "commitError" ->
                   Raise("changelog",
                         << <<changelogCommitCatch, After("changelog")>> >>
                             \o ChangelogHandlers)
             [] outcome \in {"written", "committed"} ->
                   Goto(After("changelog"))
        /\ changelog' = IF outcome = "ioError" THEN changelog
                        ELSE newContent(changelog,
                                        newEntry(version, FoundPrInfo))
    /\ UNCHANGED <<input, output, projectKind,
                   prHead, prefixes, branches, version, projectName, sha,
                   prBranch, fmt, cmds, locks, mtarFilePath, releaseFilePath,
                   files, repo, calls, prLog, trace, result>>

-----------------------------------------------------------------------------
(* Release.handle, steps 5-6: merges and tag *)

\* GitHubService.merge: a merge commit of head into base; its id is returned
MergeOnRepo(head, base) ==
    /\ calls' = Append(calls, Call("merge", head, base, repo.head + 1))
    /\ repo' = [repo EXCEPT !.head = @ + 1,
                            !.merges = @ \cup {<<base, repo.head + 1>>}]

\* Release.merge, first call: github.merge(branches.current, branches.development)
MergeDevelopment ==
    /\ pc = "mergeDev"
    /\ Visit("mergeDev")
    /\ \E ok \in BOOLEAN :
        IF ok
        THEN /\ MergeOnRepo(branches.current, branches.development)
             /\ Goto("mergeMain")
        ELSE /\ Reject("mergeDev")
             /\ UNCHANGED <<repo, calls>>
    /\ UNCHANGED <<input, output, projectKind, changelog,
                   prHead, prefixes, branches, version, projectName, sha,
                   prBranch, fmt, cmds, locks, mtarFilePath, releaseFilePath,
                   files, prLog, result>>

\* mutant: the result of the first merge is kept
mergeReturnFirst(shaDevelopment, shaMain) == shaDevelopment

\* the commit id Release.merge returns, given what the two merges returned
mergeReturn(shaDevelopment, shaMain) == shaMain

\* the id the merge into development returned
DevelopmentSha ==
    (CHOOSE m \in repo.merges : m[1] = branches.development)[2]

\* Release.merge, second call: github.merge(branches.current, branches.main)
MergeMain ==
    /\ pc = "mergeMain"
    /\ Visit("mergeMain")
    /\ \E ok \in BOOLEAN :
        IF ok
        THEN /\ MergeOnRepo(branches.current, branches.main)
             /\ sha' = mergeReturn(DevelopmentSha, repo.head + 1)
             /\ Goto(After("mergeDev"))
        ELSE /\ Reject("mergeMain")
             /\ UNCHANGED <<repo, calls, sha>>
    /\ UNCHANGED <<input, output, projectKind, changelog,
                   prHead, prefixes, branches, version, projectName,
                   prBranch, fmt, cmds, locks, mtarFilePath, releaseFilePath,
                   files, prLog, result>>

getTagName(currentBranch, releasePrefix, tagPrefix) ==
    tagPrefix \o SplitJoin(currentBranch, releasePrefix)

\* Release.createTag: github.createTag(tag, params.sha)
CreateTag ==
    /\ pc = "createTag"
    /\ Visit("createTag")
    /\ \E ok \in BOOLEAN :
        IF ok
        THEN LET tag == getTagName(branches.current, prefixes.release,
                                   prefixes.tag)
             IN  /\ calls' = Append(calls, Call("createTag", tag, None, sha))
                 /\ repo' = [repo EXCEPT !.tags = @ \cup {<<tag, sha>>}]
                 /\ Goto(After("createTag"))
        ELSE /\ Reject("createTag")
             /\ UNCHANGED <<repo, calls>>
    /\ UNCHANGED <<input, output, projectKind, changelog,
                   prHead, prefixes, branches, version, projectName, sha,
                   prBranch, fmt, cmds, locks, mtarFilePath, releaseFilePath,
                   files, prLog, result>>

-----------------------------------------------------------------------------
(* Release.handle, step 7: buildProject *)

LockFileSets == SUBSET {"package-lock.json", "yarn.lock"}

installCommand(found) ==
    IF "package-lock.json" \in found THEN "npm ci"
    ELSE IF "yarn.lock" \in found THEN "yarn install --frozen-lockfile"
    ELSE "npm install"

buildCommand(found) ==
    IF "yarn.lock" \in found THEN "yarn build" ELSE "npm run build"

InstallDependencies ==
    /\ pc = "install"
    /\ Visit("build")
    /\ \E found \in LockFileSets, ok \in BOOLEAN :
        /\ locks' = found
        /\ cmds' = Append(cmds, installCommand(found))
        /\ IF ok THEN Goto("build") ELSE Raise("install", BuildHandlers)
    /\ UNCHANGED <<input, output, projectKind, changelog,
                   prHead, prefixes, branches, version, projectName, sha,
                   prBranch, fmt, mtarFilePath, releaseFilePath, files, repo,
                   calls, prLog, result>>

RunBuild ==
    /\ pc = "build"
    /\ cmds' = Append(cmds, buildCommand(locks))
    /\ \E ok \in BOOLEAN :
        IF ok THEN Goto("classify") ELSE Raise("build", BuildHandlers)
    /\ UNCHANGED <<input, output, projectKind, changelog,
                   prHead, prefixes, branches, version, projectName, sha,
                   prBranch, fmt, locks, mtarFilePath, releaseFilePath, files,
                   repo, calls, prLog, trace, result>>

ArtifactName(project, ver, ext) == project \o <<"-v">> \o ver \o <<ext>>

\* const isMtaProject = mtaYamlExists; without mta.yaml, lib/main/index.js
\* must exist
Classify ==
    /\ pc = "classify"
    /\ \E isMtaProject \in BOOLEAN :
        IF isMtaProject
        THEN /\ projectKind' = "archive"
             /\ Goto(ArchiveOrder[1])
        ELSE /\ projectKind' = "standard"
             /\ \E buildFileExists \in BOOLEAN :
                  IF buildFileExists THEN Goto("package")
                  ELSE Raise("archive", BuildHandlers)
    /\ UNCHANGED <<input, output, changelog,
                   prHead, prefixes, branches, version, projectName, sha,
                   prBranch, fmt, cmds, locks, mtarFilePath, releaseFilePath,
                   files, repo, calls, prLog, trace, result>>

\* mta.yaml present: the first .mtar file of mta_archives is renamed to
\* {projectName}-v{version}.mtar; a missing directory or no .mtar file throws
FindArchive ==
    /\ pc = "findArchive"
    /\ \E archives \in {"nodir", "empty", "found", "renameError"} :
        IF archives = "found"
        THEN LET f == ArtifactName(projectName, version, ".mtar")
             IN  /\ files' = files \cup {f}
                 /\ mtarFilePath' = f
                 /\ Goto(ArchiveAfter("findArchive"))
        ELSE /\ Raise("archive", MtarHandlers)
             /\ UNCHANGED <<files, mtarFilePath>>
    /\ UNCHANGED <<input, output, projectKind, changelog,
                   prHead, prefixes, branches, version, projectName, sha,
                   prBranch, fmt, cmds, locks, releaseFilePath, repo, calls,
                   prLog, trace, result>>

\* updateMtaYaml: getFileContent and updateMtaYamlVersion
MtaGetFileContent ==
    /\ pc = "mtaGetContent"
    /\ \E ok \in BOOLEAN :
        IF ok THEN Goto("mtaGetSha") ELSE Raise("descriptor", MtaYamlHandlers)
    /\ UNCHANGED <<input, output, projectKind, changelog,
                   prHead, prefixes, branches, version, projectName, sha,
                   prBranch, fmt, cmds, locks, mtarFilePath, releaseFilePath,
                   files, repo, calls, prLog, trace, result>>

\* updateMtaYaml: getFileSha
MtaGetFileSha ==
    /\ pc = "mtaGetSha"
    /\ \E ok \in BOOLEAN :
        IF ok THEN Goto("mtaUpdateFile")
        ELSE Raise("descriptor", MtaYamlHandlers)
    /\ UNCHANGED <<input, output, projectKind, changelog,
                   prHead, prefixes, branches, version, projectName, sha,
                   prBranch, fmt, cmds, locks, mtarFilePath, releaseFilePath,
                   files, repo, calls, prLog, trace, result>>

\* updateMtaYaml: updateFile
MtaUpdateFile ==
    /\ pc = "mtaUpdateFile"
    /\ \E ok \in BOOLEAN :
        IF ok
        THEN /\ UpdateFileOnRepo(<<"mta.yaml">>, branches.current)
             /\ Goto(ArchiveAfter("mtaGetContent"))
        ELSE /\ Raise("descriptor", MtaYamlHandlers)
             /\ UNCHANGED <<repo, calls>>
    /\ UNCHANGED <<input, output, projectKind, changelog,
                   prHead, prefixes, branches, version, projectName, sha,
                   prBranch, fmt, cmds, locks, mtarFilePath, releaseFilePath,
                   files, prLog, trace, result>>

\* mutant: the standard package is zipped whatever was processed before
needsStandardPackageAlways(mtar) == TRUE

\* if (!mtarFilePath): no archive was processed
needsStandardPackage(mtar) == mtar = None

\* if (!mtarFilePath) the standard package is zipped; then
\* this.releaseFilePath = mtarFilePath
Package ==
    /\ pc = "package"
    /\ IF needsStandardPackage(mtarFilePath)
       THEN LET f == ArtifactName(projectName, version, ".zip")
            IN  /\ cmds' = Append(cmds, "zip")
                /\ \E ok \in BOOLEAN :
                    IF ok
                    THEN /\ files' = files \cup {f}
                         /\ releaseFilePath' = f
                         /\ Goto(After("install"))
                    ELSE /\ Raise("package", BuildHandlers)
                         /\ UNCHANGED <<files, releaseFilePath>>
       ELSE /\ releaseFilePath' = mtarFilePath
            /\ Goto(After("install"))
            /\ UNCHANGED <<cmds, files>>
    /\ UNCHANGED <<input, output, projectKind, changelog,
                   prHead, prefixes, branches, version, projectName, sha,
                   prBranch, fmt, locks, mtarFilePath, repo, calls, prLog,
                   trace, result>>

-----------------------------------------------------------------------------
(* Release.handle, steps 8-10: release and branch deletion *)

\* createGitHubRelease(version, projectName) calls getPRInfo(`release/${version}`)
ReleaseStart ==
    /\ pc = "release"
    /\ Visit("prResolution")
    /\ prBranch' = ReleaseLiteral \o version
    /\ fmt' = 1
    /\ Goto("relList")
    /\ UNCHANGED <<input, output, projectKind, changelog,
                   prHead, prefixes, branches, version, projectName, sha,
                   cmds, locks, mtarFilePath, releaseFilePath, files, repo,
                   calls, prLog, result>>

\* instance.repos.createRelease({tag_name: `v${version}`, ...})
CreateRelease ==
    /\ pc = "createRelease"
    /\ Visit("publish")
    /\ \E ok \in BOOLEAN :
        IF ok
        THEN LET tag == <<"v">> \o version
             IN  /\ calls' = Append(calls, Call("createRelease", tag, None, 0))
                 /\ repo' = [repo EXCEPT !.releases = @ \cup {tag}]
                 /\ Goto("uploadAsset")
        ELSE /\ Raise("createRelease", ReleaseHandlers)
             /\ UNCHANGED <<repo, calls>>
    /\ UNCHANGED <<input, output, projectKind, changelog,
                   prHead, prefixes, branches, version, projectName, sha,
                   prBranch, fmt, cmds, locks, mtarFilePath, releaseFilePath,
                   files, prLog, result>>

\* mutant: the artifact is looked for in the parent of the working directory
artifactExistsInParent(path, disk) ==
    path # None /\ (<<"../">> \o path) \in disk

\* this.releaseFilePath && fs.existsSync(this.releaseFilePath)
artifactExists(path, disk) == path # None /\ path \in disk

\* instance.repos.uploadReleaseAsset, when the artifact file exists
UploadAsset ==
    /\ pc = "uploadAsset"
    /\ IF artifactExists(releaseFilePath, files)
       THEN \E ok \in BOOLEAN :
            IF ok
            THEN /\ calls' = Append(calls, Call("uploadReleaseAsset",
                                                releaseFilePath, None, 0))
                 /\ repo' = [repo EXCEPT !.assets = @ \cup {releaseFilePath}]
                 /\ Goto(After("release"))
            ELSE /\ Raise("uploadAsset", ReleaseHandlers)
                 /\ UNCHANGED <<repo, calls>>
       ELSE /\ Goto(After("release"))
            /\ UNCHANGED <<repo, calls>>
    /\ UNCHANGED <<input, output, projectKind, changelog,
                   prHead, prefixes, branches, version, projectName, sha,
                   prBranch, fmt, cmds, locks, mtarFilePath, releaseFilePath,
                   files, prLog, trace, result>>

\* await this.github.delete(branches.current); return sha
DeleteBranch ==
    /\ pc = "delete"
    /\ Visit("delete")
    /\ \E ok \in BOOLEAN :
        IF ok
        THEN /\ calls' = Append(calls, Call("delete", branches.current, None, 0))
             /\ repo' = [repo EXCEPT !.deleted = @ \cup {branches.current}]
             /\ result' = IF After("delete") = "done" THEN sha ELSE result
             /\ Goto(After("delete"))
        ELSE /\ Reject("delete")
             /\ UNCHANGED <<repo, calls, result>>
    /\ UNCHANGED <<input, output, projectKind, changelog,
                   prHead, prefixes, branches, version, projectName, sha,
                   prBranch, fmt, cmds, locks, mtarFilePath, releaseFilePath,
                   files, prLog>>

-----------------------------------------------------------------------------
(* Specification of a release run *)

Next ==
    \/ GetBranches
    \/ ExtractVersion
    \/ ResolveProjectName
    \/ UpdateVersionFiles
    \/ PkgGetFileContent
    \/ PkgGetFileSha
    \/ PkgUpdateFile
    \/ ChangelogStart
    \/ PullsList
    \/ PullsGet
    \/ ChangelogWrite
    \/ MergeDevelopment
    \/ MergeMain
    \/ CreateTag
    \/ InstallDependencies
    \/ RunBuild
    \/ Classify
    \/ FindArchive
    \/ MtaGetFileContent
    \/ MtaGetFileSha
    \/ MtaUpdateFile
    \/ Package
    \/ ReleaseStart
    \/ CreateRelease
    \/ UploadAsset
    \/ DeleteBranch

Spec == Init /\ [][Next]_vars

-----------------------------------------------------------------------------
(* Specification of the VersionManagerService text transforms *)

InitVM ==
    /\ prHead \in TextNames
    /\ prefixes \in [release : Prefixes, tag : {<<>>}]
    /\ pc = "vm"
    /\ changelog = EmptyText
    /\ input = None
    /\ Idle

\* extractVersionFromBranch(branchName, releasePrefix) applied to the inputs
VmExtractVersion ==
    /\ pc = "vm"
    /\ version' = extractVersionFromBranch(prHead, prefixes.release)
    /\ pc' = "vmExtracted"
    /\ UNCHANGED <<input, output, projectKind, changelog,
                   prHead, prefixes, branches, projectName, sha, prBranch,
                   fmt, cmds, locks, mtarFilePath, releaseFilePath, files,
                   repo, calls, prLog, trace, faults, result>>

NextVM == VmExtractVersion

SpecVM == InitVM /\ [][NextVM]_vars

-----------------------------------------------------------------------------
(* Specification of one invocation: Release.test, then Release.handle *)

\* Release.test(), given what getBranches() and getPrefixes() returned
releaseTest(b, p) == Includes(b.current, p.release)

\* the dispatcher runs handle() of the workflow whose test() returned true
Dispatch(matched) == IF matched THEN "getBranches" ELSE "skipped"

InitInvocation ==
    /\ prHead \in BranchNames
    /\ prefixes \in [release : Prefixes, tag : TagPrefixes]
    /\ pc = "test"
    /\ changelog = EmptyText
    /\ input = None
    /\ Idle

\* Release.test(): getBranches() reads the pull request from the platform;
\* the branches it evaluated are kept in output
ReleaseTest ==
    /\ pc = "test"
    /\ LET b == [current |-> prHead, target |-> Main, main |-> Main,
                 development |-> Development]
       IN  /\ output' = <<[branches |-> b, matched |-> releaseTest(b, prefixes)]>>
           /\ pc' = Dispatch(releaseTest(b, prefixes))
    /\ UNCHANGED <<input, projectKind, changelog,
                   prHead, prefixes, branches, version, projectName, sha,
                   prBranch, fmt, cmds, locks, mtarFilePath, releaseFilePath,
                   files, repo, calls, prLog, trace, faults, result>>

\* the platform: the head reference of the pull request changes after
\* test() has read it and before handle() reads it
PullRequestEdited ==
    /\ pc = "getBranches"
    /\ prHead = output[1].branches.current
    /\ \E ref \in BranchNames \ {prHead} : prHead' = ref
    /\ UNCHANGED <<input, output, projectKind, changelog,
                   pc, prefixes, branches, version, projectName, sha,
                   prBranch, fmt, cmds, locks, mtarFilePath, releaseFilePath,
                   files, repo, calls, prLog, trace, faults, result>>

NextInvocation == ReleaseTest \/ PullRequestEdited \/ GetBranches

SpecInvocation == InitInvocation /\ [][NextInvocation]_vars

-----------------------------------------------------------------------------
(* Specification of one file patch (updatePackageJson, updateMtaYaml) with  *)
(* other writers committing to the release branch                          *)

\* The commits of the release branch are counted by repo.head; each of them
\* changes the file, so the commit number stands for the content of the file
\* and for its hash.  input holds the locals of the patch: the path, the
\* commit whose content was read and the commit whose hash was read.
PatchedPaths == {<<"package.json">>, <<"mta.yaml">>}

InitPatch ==
    /\ prHead = None
    /\ prefixes = [release |-> <<>>, tag |-> <<>>]
    /\ pc = "patchGetContent"
    /\ changelog = EmptyText
    /\ input \in [path : PatchedPaths, content : {0}, sha : {0}]
    /\ Idle

\* const content = await this.github.getFileContent(path, branch)
PatchGetFileContent ==
    /\ pc = "patchGetContent"
    /\ \E ok \in BOOLEAN :
        IF ok
        THEN /\ input' = [input EXCEPT !.content = repo.head]
             /\ Goto("patchGetSha")
        ELSE /\ Raise("manifest", <<>>)
             /\ UNCHANGED input
    /\ UNCHANGED <<output, projectKind, changelog,
                   prHead, prefixes, branches, version, projectName, sha,
                   prBranch, fmt, cmds, locks, mtarFilePath, releaseFilePath,
                   files, repo, calls, prLog, trace, result>>

\* const fileResponse = await this.getFileSha(path, branch): one more
\* repos.getContent request
PatchGetFileSha ==
    /\ pc = "patchGetSha"
    /\ \E ok \in BOOLEAN :
        IF ok
        THEN /\ input' = [input EXCEPT !.sha = repo.head]
             /\ Goto("patchUpdateFile")
        ELSE /\ Raise("manifest", <<>>)
             /\ UNCHANGED input
    /\ UNCHANGED <<output, projectKind, changelog,
                   prHead, prefixes, branches, version, projectName, sha,
                   prBranch, fmt, cmds, locks, mtarFilePath, releaseFilePath,
                   files, repo, calls, prLog, trace, result>>

\* await this.github.updateFile(path, updatedContent, message, branch, sha):
\* the platform accepts the update when sha is the hash of the file as it
\* is now, and rejects it otherwise.  output records the commit the new
\* content was derived from and the commit it replaced.
PatchUpdateFile ==
    /\ pc = "patchUpdateFile"
    /\ IF input.sha = repo.head
       THEN /\ UpdateFileOnRepo(input.path, branches.current)
            /\ output' = Append(output, [base |-> input.content,
                                         replaced |-> repo.head])
            /\ Goto("patched")
       ELSE /\ Raise("manifest", <<>>)
            /\ UNCHANGED <<repo, calls, output>>
    /\ UNCHANGED <<input, projectKind, changelog,
                   prHead, prefixes, branches, version, projectName, sha,
                   prBranch, fmt, cmds, locks, mtarFilePath, releaseFilePath,
                   files, prLog, trace, result>>

\* another writer commits a change of the file to the release branch
OtherWriter ==
    /\ pc \in {"patchGetContent", "patchGetSha", "patchUpdateFile"}
    /\ repo.head < MaxWrites
    /\ repo' = [repo EXCEPT !.head = @ + 1]
    /\ UNCHANGED <<input, output, projectKind, changelog,
                   prHead, prefixes, pc, branches, version, projectName, sha,
                   prBranch, fmt, cmds, locks, mtarFilePath, releaseFilePath,
                   files, calls, prLog, trace, faults, result>>

NextPatch ==
    \/ PatchGetFileContent
    \/ PatchGetFileSha
    \/ PatchUpdateFile
    \/ OtherWriter

SpecPatch == InitPatch /\ [][NextPatch]_vars

-----------------------------------------------------------------------------
(* Specification of Feature.test *)

\* Feature.test(), given what getBranches() and getPrefixes() returned
test(b, p) ==
    LET baseBranchIsFeature == Includes(b.current, p.feature)
        targetBranchIsDevelopment == b.target = <<"development">>
        targetBranchIsQuality == b.target = <<"quality">>
    IN  baseBranchIsFeature
            /\ (targetBranchIsDevelopment \/ targetBranchIsQuality)

\* head refs of a pull request: text around the word "feature/"
FeatureHeads == Strings({"feature/", "x"}, MaxHeadLen)

\* base refs of a pull request
Targets == {<<"development">>, <<"develop">>, <<"quality">>, Main}

\* values of the input development_branch: the one of the usage example and
\* the documented default
DevelopmentInputs == {<<"development">>, <<"develop">>}

\* values of the input feature_branch_prefix
FeaturePrefixes == {<<"feature/">>, <<"x">>}

InitFeature ==
    /\ prHead = None
    /\ prefixes = [release |-> <<>>, tag |-> <<>>]
    /\ pc = "featureTest"
    /\ changelog = EmptyText
    /\ input \in [current : FeatureHeads, target : Targets,
                   development : DevelopmentInputs, feature : FeaturePrefixes]
    /\ Idle

\* Feature.test(): getBranches(), getPrefixes(), then the predicate
FeatureTest ==
    /\ pc = "featureTest"
    /\ branches' = [current |-> input.current, target |-> input.target,
                    main |-> Main, development |-> input.development]
    /\ output' = <<test(branches', [feature |-> input.feature])>>
    /\ pc' = "featureTested"
    /\ UNCHANGED <<input, projectKind, changelog,
                   prHead, prefixes, version, projectName, sha,
                   prBranch, fmt, cmds, locks, mtarFilePath, releaseFilePath,
                   files, repo, calls, prLog, trace, faults, result>>

NextFeature == FeatureTest

SpecFeature == InitFeature /\ [][NextFeature]_vars

-----------------------------------------------------------------------------
(* Specification of updateMtaYamlVersion, applied once and once more *)

\* versions patched into the descriptor: X.Y.Z literals, one of them the
\* value the content may already hold
YamlVersions == {MinVersion, <<"0.0.1">>}

InitYaml ==
    /\ prHead = None
    /\ prefixes = [release |-> <<>>, tag |-> <<>>]
    /\ pc = "yaml"
    /\ changelog = EmptyText
    /\ input \in [content : Strings(YamlToken, MaxContentLen),
                   version : YamlVersions]
    /\ Idle

\* updateMtaYamlVersion(content, version)
YamlUpdate ==
    /\ pc = "yaml"
    /\ output' = <<updateMtaYamlVersion(input.content, input.version)>>
    /\ pc' = "yamlUpdated"
    /\ UNCHANGED <<input, projectKind, changelog,
                   prHead, prefixes, branches, version, projectName, sha,
                   prBranch, fmt, cmds, locks, mtarFilePath, releaseFilePath,
                   files, repo, calls, prLog, trace, faults, result>>

\* updateMtaYamlVersion applied to its own result, with the same version
YamlUpdateAgain ==
    /\ pc = "yamlUpdated"
    /\ output' = Append(output,
                        updateMtaYamlVersion(output[1], input.version))
    /\ pc' = "yamlUpdatedAgain"
    /\ UNCHANGED <<input, projectKind, changelog,
                   prHead, prefixes, branches, version, projectName, sha,
                   prBranch, fmt, cmds, locks, mtarFilePath, releaseFilePath,
                   files, repo, calls, prLog, trace, faults, result>>

NextYaml == YamlUpdate \/ YamlUpdateAgain

SpecYaml == InitYaml /\ [][NextYaml]_vars

-----------------------------------------------------------------------------
(* Specification of the changelog text: entries spliced one after another *)

\* version of the k-th entry
EntryVersion(k) == <<"1", ".", "1", ".", ToString(k)>>

\* pull-request records createOrUpdateChangelog may be given: body empty,
\* one paragraph, or a heading and a paragraph; url empty or not
PrInfos ==
    [body : {EmptyText, Line(<<"body">>), <<<<"#", "notes">>, <<"text">>>>},
     url : {<<>>, <<"url">>}]

\* a document made of the changelog heading, an empty line and one entry
OneEntryDoc(entry) == CatAll(<<Line(TitleLine), Newlines(2), entry>>)

\* prior entries of a document found on disk: one written in the format of
\* newEntry, one made of a plain paragraph
PriorEntries ==
    {newEntry(EntryVersion(0), FoundPrInfo),
     CatAll(<<Line(<<"text">>), Newlines(2)>>)}

\* CHANGELOG.md before the first splice: absent or empty, or a heading
\* followed by one prior entry
ExistingDocs == {EmptyText} \cup {OneEntryDoc(e) : e \in PriorEntries}

InitChangelog ==
    /\ prHead = None
    /\ prefixes = [release |-> <<>>, tag |-> <<>>]
    /\ pc = "changelogText"
    /\ changelog \in ExistingDocs
    /\ input = [existing |-> changelog, entries |-> <<>>]
    /\ Idle

\* one more release: the entry of its version is spliced into the document
\* and the document is written back
SpliceEntry ==
    /\ pc = "changelogText"
    /\ Len(input.entries) < MaxEntries
    /\ \E prInfo \in PrInfos :
        LET entry == newEntry(EntryVersion(Len(input.entries) + 1), prInfo)
        IN  /\ changelog' = newContent(changelog, entry)
            /\ input' = [input EXCEPT !.entries = Append(@, entry)]
            /\ output' = Append(output, newContent(changelog, entry))
    /\ UNCHANGED <<prHead, prefixes, pc, branches, version, projectName, sha,
                   prBranch, fmt, cmds, locks, mtarFilePath, releaseFilePath,
                   files, repo, calls, prLog, trace, faults, result,
                   projectKind>>

NextChangelog == SpliceEntry

SpecChangelog == InitChangelog /\ [][NextChangelog]_vars

-----------------------------------------------------------------------------
(* Vocabulary of the properties *)

Called(op) == \E i \in 1..Len(calls) : calls[i].op = op

CalledWith(op, a) == \E i \in 1..Len(calls) : calls[i].op = op /\ calls[i].a = a

Merged(base) ==
    \E i \in 1..Len(calls) : calls[i].op = "merge" /\ calls[i].b = base

\* what a call is: its operation and, for merge and updateFile, its target
CallKind(c) ==
    IF c.op = "merge" THEN <<c.op, c.b>>
    ELSE IF c.op = "updateFile" THEN <<c.op, c.a>>
    ELSE <<c.op, None>>

ExpectedCalls ==
    << <<"updateFile", <<"package.json">> >>,
       <<"merge", Development>>,
       <<"merge", Main>>,
       <<"createTag", None>>,
       <<"updateFile", <<"mta.yaml">> >>,
       <<"createRelease", None>>,
       <<"uploadReleaseAsset", None>>,
       <<"delete", None>> >>

KindIndex(k) == CHOOSE n \in 1..Len(ExpectedCalls) : ExpectedCalls[n] = k

StepOrder ==
    <<"extractVersion", "projectName", "manifest", "changelog", "mergeDev",
      "mergeMain", "createTag", "build", "prResolution", "publish", "delete">>

IsPrefixOf(s, t) == Len(s) <= Len(t) /\ SubSeq(t, 1, Len(s)) = s

LastStep == IF trace = <<>> THEN "none" ELSE trace[Len(trace)]

\* the step of StepOrder in which each kind of exception is raised
StepOfFault(f) ==
    CASE f = "getBranches" -> "none"
      [] f \in {"install", "build", "archive", "package", "descriptor"} -> "build"
      [] f \in {"createRelease", "uploadAsset"} -> "publish"
      [] OTHER -> f

\* the calls that can have been issued when step f begins, as a prefix of
\* ExpectedCalls
CallsBefore(f) ==
    CASE f \in {"getBranches", "extractVersion", "projectName", "manifest"} -> 0
      [] f \in {"changelog", "mergeDev"} -> 1
      [] f = "mergeMain" -> 2
      [] f = "createTag" -> 3
      [] f \in {"install", "build", "archive", "package"} -> 4
      [] f \in {"descriptor", "prResolution", "createRelease"} -> 5
      [] f = "uploadAsset" -> 6
      [] f = "delete" -> 7

\* X.Y.Z: three non-empty runs of digits separated by dots
IsNumeral(s) == s # <<>> /\ \A k \in 1..Len(s) : s[k] \in Digit

IsVersionLiteral(s) ==
    \E i, j \in 1..Len(s) :
        /\ i < j
        /\ s[i] = "." /\ s[j] = "."
        /\ IsNumeral(SubSeq(s, 1, i - 1))
        /\ IsNumeral(SubSeq(s, i + 1, j - 1))
        /\ IsNumeral(SubSeq(s, j + 1, Len(s)))

\* name = releasePrefix + X.Y.Z
HasReleaseShape(name, releasePrefix) ==
    /\ StartsWith(name, releasePrefix)
    /\ IsVersionLiteral(DropFirst(name, Len(releasePrefix)))

-----------------------------------------------------------------------------
(* C1 *)

PriorSteps ==
    {"manifest", "mergeDev", "mergeMain", "createTag", "install", "build",
     "archive", "package", "prResolution", "createRelease", "uploadAsset"}

-----------------------------------------------------------------------------
(* C2 *)

\* C2: the steps of a run begin in the order extract version, project
\* name, manifest, changelog, merge into development, merge into main, tag,
\* build, pull-request resolution, publication, delete; the gateway calls
\* they issue follow the same order, none twice; a finished run has gone
\* through all of them.
StepsInFixedOrder ==
    /\ IsPrefixOf(trace, StepOrder)
    /\ \A i \in 1..Len(calls) : CallKind(calls[i]) \in
            {ExpectedCalls[n] : n \in 1..Len(ExpectedCalls)}
    /\ \A i, j \in 1..Len(calls) :
            i < j => KindIndex(CallKind(calls[i])) < KindIndex(CallKind(calls[j]))
    /\ pc = "done" => trace = StepOrder

RunWentThroughAllSteps ==
    /\ pc = "done"
    /\ trace = StepOrder
    /\ Len(calls) = Len(ExpectedCalls)

-----------------------------------------------------------------------------
(* C3 *)

\* C3: when the current branch is not releasePrefix + X.Y.Z, the run
\* fails at version extraction and issues no gateway mutation.
NoShapeNoMutation ==
    (pc # "getBranches" /\ pc # "failed"
        /\ ~HasReleaseShape(prHead, prefixes.release))
    => (pc = "extractVersion" /\ calls = <<>>)

-----------------------------------------------------------------------------
(* C4 *)

\* C4: the tag is created at the commit id returned by the merge into
\* main, the run returns that id, and it is not the id returned by the merge
\* into development.
TagAndResultAtMainSha ==
    /\ \A i \in 1..Len(calls) :
        calls[i].op = "createTag" =>
            /\ <<Main, calls[i].sha>> \in repo.merges
            /\ <<Development, calls[i].sha>> \notin repo.merges
    /\ pc = "done" =>
            /\ <<Main, result>> \in repo.merges
            /\ <<Development, result>> \notin repo.merges

ReturnedTaggedSha ==
    /\ pc = "done"
    /\ \E t \in repo.tags : t[2] = result
    /\ Cardinality(repo.merges) = 2

-----------------------------------------------------------------------------
(* C5 *)

\* C5: for a current branch releasePrefix + X.Y.Z that passed version
\* extraction, the tag passed to createTag is tagPrefix + X.Y.Z.
TagIsTagPrefixPlusVersion ==
    \A i \in 1..Len(calls) :
        (calls[i].op = "createTag"
            /\ branches.current = prefixes.release \o version)
        => calls[i].a = prefixes.tag \o version

-----------------------------------------------------------------------------
(* C6 *)

\* C6: extractVersionFromBranch returns X.Y.Z exactly when the branch
\* name is releasePrefix followed by X.Y.Z, and throws for every other name.
ExtractsExactlyReleaseShape ==
    pc = "vmExtracted" =>
        IF HasReleaseShape(prHead, prefixes.release)
        THEN prHead = prefixes.release \o version
        ELSE version = Throw

-----------------------------------------------------------------------------
(* C7 *)

ChangelogPcs == {"changelog", "clList", "clGet", "clWrite"}

\* C7: a failure inside the changelog step never ends the run: the run
\* goes on to the merge into development with nothing but the manifest patch
\* applied, and a run that failed later failed in a later step.
ChangelogFailureSwallowed ==
    "changelog" \in faults =>
        /\ pc \notin ChangelogPcs
        /\ pc = "mergeDev" => (Len(calls) = 1 /\ sha = 0 /\ LastStep = "changelog")
        /\ pc = "failed" => (faults # {"changelog"} /\ LastStep # "changelog")

FinishedDespiteChangelogFailure ==
    /\ pc = "done"
    /\ "changelog" \in faults
    /\ Called("delete")

-----------------------------------------------------------------------------
(* C8 *)

\* C8 as stated: every exception outside the changelog step ends the run.
EveryOtherFailureFatal ==
    faults \ {"changelog"} # {} => pc = "failed"

Swallowed == {"changelog", "descriptor"}

\* C8 amended: an exception in version extraction, the manifest patch, a
\* merge, the tag creation, install, build, the artifact check, packaging,
\* the pull-request resolution, the release creation or the asset upload
\* ends the run in the step that raised it, and no later step begins; an
\* exception in the descriptor version patch is swallowed like one of the
\* changelog step.
FatalExceptDescriptorPatch ==
    \A f \in faults \ Swallowed :
        /\ pc = "failed"
        /\ LastStep = StepOfFault(f)
        /\ Len(calls) <= CallsBefore(f)
        /\ faults \ Swallowed = {f}

FailedAfterDescriptorFault ==
    /\ pc = "failed"
    /\ "descriptor" \in faults
    /\ "uploadAsset" \in faults

-----------------------------------------------------------------------------
(* C9 *)

\* what a call leaves in the hosted repository
EffectInPlace(c) ==
    CASE c.op = "updateFile" -> c.a \in repo.patched
      [] c.op = "merge" -> <<c.b, c.sha>> \in repo.merges
      [] c.op = "createTag" -> <<c.a, c.sha>> \in repo.tags
      [] c.op = "createRelease" -> c.a \in repo.releases
      [] c.op = "uploadReleaseAsset" -> c.a \in repo.assets
      [] c.op = "delete" -> c.a \in repo.deleted

\* C9: once a fatal exception was raised, no gateway mutation past the
\* failing step is issued and nothing is undone: every call issued before the
\* failure still has its effect in the repository and no other commit was
\* made; after a failed merge into main there is no tag, release or deletion,
\* after a failed tag creation both merges are in place.
NoMutationNoRollbackAfterFailure ==
    faults \ Swallowed # {} =>
        /\ \A i \in 1..Len(calls) : EffectInPlace(calls[i])
        /\ repo.head =
             Cardinality({i \in 1..Len(calls) :
                            calls[i].op \in {"updateFile", "merge"}})
        /\ \A f \in faults \ Swallowed : Len(calls) <= CallsBefore(f)
        /\ "mergeMain" \in faults =>
             /\ Merged(Development)
             /\ ~Called("createTag") /\ ~Called("createRelease")
             /\ ~Called("delete")
             /\ repo.tags = {} /\ repo.releases = {} /\ repo.deleted = {}
        /\ "createTag" \in faults =>
             /\ Cardinality(repo.merges) = 2
             /\ ~Called("createRelease") /\ ~Called("delete")
             /\ repo.tags = {} /\ repo.releases = {} /\ repo.deleted = {}

FailedTagAfterBothMerges ==
    /\ pc = "failed"
    /\ "createTag" \in faults
    /\ Merged(Development)
    /\ Merged(Main)

-----------------------------------------------------------------------------
(* C10 *)

ReleaseQueries == {i \in 1..Len(prLog) : prLog[i].by = "prResolution"}

\* C10: when none of the candidate head references of the release
\* lookup yields a pull request, the run fails: no release is published, no
\* asset is uploaded and the release branch is not deleted.
NoPullRequestNoRelease ==
    "prResolution" \in faults =>
        /\ pc = "failed"
        /\ Cardinality(ReleaseQueries) = Len(branchFormats(prBranch))
        /\ ~Called("createRelease")
        /\ ~Called("uploadReleaseAsset")
        /\ ~Called("delete")
        /\ repo.releases = {} /\ repo.assets = {} /\ repo.deleted = {}

FailedForLackOfPullRequest ==
    /\ pc = "failed"
    /\ "prResolution" \in faults
    /\ Called("createTag")

-----------------------------------------------------------------------------
(* C11 *)

CallCount(op) == Cardinality({i \in 1..Len(calls) : calls[i].op = op})

\* C11: every run that completes successfully has produced exactly one
\* release artifact and has uploaded it as exactly one asset of the release
\* it published; no run completes with the release published and the branch
\* deleted but no asset uploaded.
OneArtifactOneAsset ==
    pc = "done" =>
        /\ files = {releaseFilePath}
        /\ repo.assets = {releaseFilePath}
        /\ CallCount("uploadReleaseAsset") = 1
        /\ CalledWith("uploadReleaseAsset", releaseFilePath)
        /\ CallCount("createRelease") = 1
        /\ repo.deleted # {}

DoneWithUploadedArtifact ==
    /\ pc = "done"
    /\ Called("createRelease")
    /\ Called("delete")
    /\ releaseFilePath \in repo.assets

-----------------------------------------------------------------------------
(* C12 *)

DescriptorPatched == CalledWith("updateFile", <<"mta.yaml">>)

\* C12: in an archive build the version of the deployment descriptor is
\* patched only after an archive file was found and renamed to
\* {project}-v{version}.mtar; in a run whose install, build or archive check
\* failed no updateFile call for the descriptor is made.
DescriptorPatchedOnlyAfterArchive ==
    /\ DescriptorPatched =>
            /\ projectKind = "archive"
            /\ mtarFilePath = ArtifactName(projectName, version, ".mtar")
            /\ mtarFilePath \in files
    /\ faults \cap {"install", "build", "archive"} # {} => ~DescriptorPatched

PatchedAfterArchiveRenamed ==
    /\ DescriptorPatched
    /\ mtarFilePath \in files
    /\ <<"mta.yaml">> \in repo.patched

-----------------------------------------------------------------------------
(* C13 *)

\* C13: in an archive build, when the archive directory is missing or holds
\* no archive file the build step fails and the run aborts: no artifact path
\* is recorded, no release is published and the release branch is not
\* deleted.
MissingArchiveAborts ==
    projectKind = "archive" /\ "archive" \in faults =>
        /\ pc = "failed"
        /\ mtarFilePath = None /\ releaseFilePath = None
        /\ ~Called("createRelease") /\ repo.releases = {}
        /\ ~Called("delete") /\ repo.deleted = {}

AbortedForMissingArchive ==
    /\ projectKind = "archive"
    /\ "archive" \in faults
    /\ pc = "failed"
    /\ cmds # <<>>

-----------------------------------------------------------------------------
(* C14 *)

\* the lines of a text after its leading blank lines
RECURSIVE SkipBlank(_)
SkipBlank(lines) ==
    IF lines # <<>> /\ IsBlank(lines[1]) THEN SkipBlank(Tail(lines))
    ELSE lines

\* C14: a splice into a document made of the changelog heading followed by
\* one prior entry puts the new entry directly after the header and before
\* the prior entry, whose text follows the new entry unchanged: the
\* document is the heading, blank lines, the new entry, the prior entry.
SpliceKeepsPriorEntry ==
    /\ pc = "changelogText"
    /\ Len(input.entries) = 1
    /\ input.existing # EmptyText
    => /\ changelog[1] = TitleLine
       /\ SkipBlank(Tail(changelog)) =
              Cat(input.entries[1], SkipBlank(Tail(input.existing)))

-----------------------------------------------------------------------------
(* C15 *)

\* the lines an entry contributes to a document
Block(entry) == SubSeq(entry, 1, Len(entry) - 1)

\* the positions of a document at which the block occurs, line for line
Positions(block, text) ==
    {i \in 1..(Len(text) - Len(block) + 1) :
        SubSeq(text, i, i + Len(block) - 1) = block}

\* C15: after any number of changelog updates starting from an empty or
\* absent file the document is newest-first: it begins with the heading,
\* every entry written so far stands in it as one contiguous block, and the
\* block of a newer entry ends before the block of every older entry begins.
NewestFirst ==
    pc = "changelogText" /\ input.existing = EmptyText =>
        LET n == Len(input.entries)
            blocks == [k \in 1..n |-> Block(input.entries[k])]
        IN  /\ n > 0 => changelog[1] = TitleLine
            /\ \A k \in 1..n : Positions(blocks[k], changelog) \ {1} # {}
            /\ \A k \in 1..(n - 1) :
                    \E i \in Positions(blocks[k + 1], changelog) :
                    \E j \in Positions(blocks[k], changelog) :
                        i + Len(blocks[k + 1]) <= j

-----------------------------------------------------------------------------
(* C16 *)

\* C16: updateMtaYamlVersion is idempotent: applied to its own result with
\* the same version it returns that result.
PatchIsIdempotent ==
    pc = "yamlUpdatedAgain" => output[2] = output[1]

\* a content whose version line was rewritten, patched twice
PatchedTwice ==
    /\ pc = "yamlUpdatedAgain"
    /\ output[1] # input.content
    /\ \E i \in 1..Len(input.content) : input.content[i] = "\n"

-----------------------------------------------------------------------------
(* C17 *)

\* C17: Feature.test returns true exactly when the current branch contains
\* the feature prefix and the target branch is the configured development
\* branch (the development field of the resolved branches) or the quality
\* branch.
FeatureTestFollowsConfiguration ==
    pc = "featureTested" =>
        (output[1] <=>
            /\ Includes(branches.current, input.feature)
            /\ \/ branches.target = branches.development
               \/ branches.target = <<"quality">>)

-----------------------------------------------------------------------------
(* C18 *)

\* the content with its first line that begins with "version:" replaced,
\* every other line kept
RECURSIVE ReplaceFirstLine(_, _, _)
ReplaceFirstLine(s, replacement, bol) ==
    IF s = <<>> THEN <<>>
    ELSE IF bol /\ s[1] = "version:" THEN replacement \o SkipLine(s)
    ELSE <<s[1]>> \o ReplaceFirstLine(Tail(s), replacement, s[1] = "\n")

\* C18: updateMtaYamlVersion replaces only the first line that begins with
\* "version:" by "version: <version>" and leaves every other line as it
\* was; a content without such a line is returned unchanged.
OnlyFirstVersionLineReplaced ==
    pc \in {"yamlUpdated", "yamlUpdatedAgain"} =>
        output[1] = ReplaceFirstLine(input.content,
                                     <<"version:", " ">> \o input.version,
                                     TRUE)

-----------------------------------------------------------------------------
(* C19 *)

Ran(cmd) == \E i \in 1..Len(cmds) : cmds[i] = cmd

\* C19: the kind of the artifact follows the classification of the project.
\* With mta.yaml present the artifact is the renamed archive and no standard
\* package is ever made; without it the build output must exist (the run
\* aborts otherwise), the artifact is {project}-v{version}.zip and no
\* archive is ever taken.
ArtifactFollowsClassification ==
    LET mtar == ArtifactName(projectName, version, ".mtar")
        zip == ArtifactName(projectName, version, ".zip")
    IN  /\ releaseFilePath # None => projectKind # "unclassified"
        /\ projectKind = "archive" =>
                /\ ~Ran("zip") /\ zip \notin files
                /\ releaseFilePath \in {None, mtar}
                /\ releaseFilePath = mtar => mtarFilePath = mtar /\ mtar \in files
        /\ projectKind = "standard" =>
                /\ mtar \notin files /\ ~DescriptorPatched
                /\ releaseFilePath \in {None, zip}
                /\ releaseFilePath = zip => Ran("zip") /\ zip \in files
                /\ "archive" \in faults =>
                        pc = "failed" /\ ~Ran("zip") /\ releaseFilePath = None

StandardPackageReleased ==
    /\ pc = "done"
    /\ projectKind = "standard"
    /\ releaseFilePath = ArtifactName(projectName, version, ".zip")
    /\ releaseFilePath \in repo.assets

-----------------------------------------------------------------------------
(* C20 *)

Begun(step) == \E i \in 1..Len(trace) : trace[i] = step

\* C20: the pull-request metadata of the release publication is resolved
\* with the name of the current branch of the run, whatever release prefix
\* is configured: getPRInfo is given branches.current and its queries are
\* the candidates derived from that name.
ReleaseLookupUsesCurrentBranch ==
    Begun("prResolution") =>
        /\ prBranch = branches.current
        /\ \A i \in ReleaseQueries :
                \E k \in 1..Len(branchFormats(branches.current)) :
                    prLog[i].head = branchFormats(branches.current)[k]

-----------------------------------------------------------------------------
(* C21 *)

\* the branch name without the configured release prefix at its head
StripPrefix(branch, prefix) ==
    IF StartsWith(branch, prefix) THEN DropFirst(branch, Len(prefix))
    ELSE branch

\* the candidates as the claim lists them
ClaimedFormats(branch) ==
    <<branch, StripPrefix(branch, prefixes.release), <<"owner:">> \o branch>>

\* the rank of query i among the queries of its lookup
Rank(i) == Cardinality({j \in 1..i : prLog[j].by = prLog[i].by})

\* C21: getPRInfo queries the candidate head references in the order raw
\* branch name, branch name with the configured release prefix stripped,
\* owner:branch: the k-th query of a lookup asks for the k-th of these
\* candidates of the branch name the lookup was given, and a lookup stops
\* at its first hit.
CandidatesInClaimedOrder ==
    \A i \in 1..Len(prLog) :
        LET branch == IF prLog[i].by = "changelog" THEN branches.current
                      ELSE prBranch
        IN  /\ Rank(i) <= Len(ClaimedFormats(branch))
            /\ prLog[i].head = ClaimedFormats(branch)[Rank(i)]

-----------------------------------------------------------------------------
(* C22 *)

\* the package manager a command belongs to
Manager(cmd) ==
    IF cmd \in {"npm ci", "npm install", "npm run build"} THEN "npm"
    ELSE "yarn"

\* C22: whatever lock files are present (npm's only, yarn's only, both,
\* none), the install command and the build command of a run belong to the
\* same package manager.
InstallAndBuildSameManager ==
    Len(cmds) >= 2 => Manager(cmds[1]) = Manager(cmds[2])

-----------------------------------------------------------------------------
(* C23 *)

\* C23: the branches are resolved once per invocation: the branch names
\* handle() operates on are the branch names test() evaluated, even when the
\* pull request changes on the platform between the two.
HandleUsesTestedBranches ==
    pc = "extractVersion" /\ output # <<>> => branches = output[1].branches

-----------------------------------------------------------------------------
(* C24 *)

SameCall(c, d) == c.op = d.op /\ c.a = d.a /\ c.b = d.b

NoMutatingCallTwice ==
    \A i, j \in 1..Len(calls) : i < j => ~SameCall(calls[i], calls[j])

\* C24 as stated: no external call is issued twice with the same
\* arguments, the pull-request queries included.
NoCallTwice ==
    /\ NoMutatingCallTwice
    /\ \A i, j \in 1..Len(prLog) : i < j => prLog[i].head # prLog[j].head

\* C24, amended: there are no retries.  Every step of handle() begins at
\* most once, no mutating call is issued twice with the same arguments, and
\* each of the two pull-request lookups asks for each of its candidates at
\* most once, in order; the same query may be issued by both lookups.
NoRetries ==
    /\ NoMutatingCallTwice
    /\ \A i, j \in 1..Len(trace) : i < j => trace[i] # trace[j]
    /\ \A i \in 1..Len(prLog) :
            LET branch == IF prLog[i].by = "changelog" THEN branches.current
                          ELSE prBranch
            IN  /\ Rank(i) <= Len(branchFormats(branch))
                /\ prLog[i].head = branchFormats(branch)[Rank(i)]

\* a finished run whose two lookups issued the same query
SameQueryInBothLookups ==
    /\ pc = "done"
    /\ \E i, j \in 1..Len(prLog) :
            /\ prLog[i].by = "changelog" /\ prLog[j].by = "prResolution"
            /\ prLog[i].head = prLog[j].head

-----------------------------------------------------------------------------
(* C25 *)

\* C25: in every successful run the tag name of the published release is
\* the name of the tag created earlier in the run, whatever tag prefix is
\* configured.
ReleaseRefersToCreatedTag ==
    pc = "done" =>
        \A i, j \in 1..Len(calls) :
            calls[i].op = "createTag" /\ calls[j].op = "createRelease"
                => calls[j].a = calls[i].a

-----------------------------------------------------------------------------
(* C26 *)

\* C26: the hash passed to updateFile is the hash of the content that was
\* read and patched: an update that the platform accepts replaces the very
\* commit its content was derived from, so it never overwrites a change
\* another writer made after the content was read.
UpdateReplacesWhatWasRead ==
    \A i \in 1..Len(output) :
        pc = "patched" => output[i].base = output[i].replaced

-----------------------------------------------------------------------------
(* C27 *)

IsPatchOf(i, path) == calls[i].op = "updateFile" /\ calls[i].a = path

\* C27: the descriptor version patch is committed to the release branch only
\* after both merges and the creation of the tag, and no merge or tag
\* follows it; every merge is made after the manifest version patch.  So the
\* commit tagged on main holds the manifest patch and never the descriptor
\* patch.
DescriptorPatchedAfterMergesAndTag ==
    /\ \A d \in 1..Len(calls) :
            IsPatchOf(d, <<"mta.yaml">>) =>
                /\ projectKind = "archive"
                /\ Cardinality({i \in 1..(d - 1) : calls[i].op = "merge"}) = 2
                /\ \E i \in 1..(d - 1) : calls[i].op = "createTag"
                /\ \A j \in (d + 1)..Len(calls) :
                        calls[j].op \notin {"merge", "createTag"}
    /\ \A m \in 1..Len(calls) :
            calls[m].op = "merge" =>
                /\ \E i \in 1..(m - 1) : IsPatchOf(i, <<"package.json">>)
                /\ \A i \in 1..(m - 1) : ~IsPatchOf(i, <<"mta.yaml">>)
    /\ \A t \in repo.tags : t[2] = sha /\ <<Main, sha>> \in repo.merges

ArchiveRunDoneWithDescriptorPatch ==
    /\ pc = "done"
    /\ projectKind = "archive"
    /\ DescriptorPatched
    /\ Merged(Main)
    /\ repo.deleted # {}
====
